---------------------------- MODULE Spec2Model ----------------------------
(***************************************************************************)
(* A model of tint.TintRegistry (src/tint/tint.py): the registry of colour *)
(* names and sRGB hex codes, its registration call add_colors and its two  *)
(* queries match_name and find_nearest.                                    *)
(*                                                                         *)
(* Text is modelled as a sequence of one-character strings, so that        *)
(* lower(), strip(), the NFKC_CF normalizer and the hex codec are computed *)
(* character by character as the code computes them.                       *)
(***************************************************************************)
EXTENDS Integers, Sequences, FiniteSets, Bags, TLC

VARIABLES
    colors_by_system_hex,   \* self._colors_by_system_hex: system -> (hex -> name)
    colors_by_system_lab,   \* self._colors_by_system_lab: system -> {LabColor object: name}
    hex_by_color,           \* self._hex_by_color: normalized name -> hex
    last,                   \* the last call made on the registry and how it ended
    registered              \* history: the (system, pair) registrations, in order

vars == <<colors_by_system_hex, colors_by_system_lab, hex_by_color, last, registered>>

(***************************************************************************)
(* Bounds of the model.                                                    *)
(***************************************************************************)
\* the longest batch of pairs one add_colors call is given
MaxBatch == 2
\* the pairs a registry is given in all, over its add_colors calls
MaxPairs == 2

(***************************************************************************)
(* Text: str.lower, str.strip, the ICU normalizer, fuzzywuzzy's processor. *)
(***************************************************************************)
\* the upper-case letters of the model's alphabet and their lower case
UpperToLower ==
    [c \in {"R", "F", "W", "T"} |->
        CASE c = "R" -> "r" [] c = "F" -> "f" [] c = "W" -> "w" [] c = "T" -> "t"]

LowerChar(c) == IF c \in DOMAIN UpperToLower THEN UpperToLower[c] ELSE c

\* unicode.lower()
Lower(s) == [i \in 1..Len(s) |-> LowerChar(s[i])]

IsSpace(c) == c = " "

RECURSIVE LStrip(_)
LStrip(s) == IF s # <<>> /\ IsSpace(Head(s)) THEN LStrip(Tail(s)) ELSE s

RECURSIVE RStrip(_)
RStrip(s) ==
    IF s # <<>> /\ IsSpace(s[Len(s)]) THEN RStrip(SubSeq(s, 1, Len(s) - 1)) ELSE s

\* unicode.strip()
Strip(s) == RStrip(LStrip(s))

\* NFKC_Casefold of one character: case folding, and the sharp s expands to "ss"
FoldChar(c) == IF c = "ß" THEN <<"s", "s">> ELSE <<LowerChar(c)>>

RECURSIVE Normalize(_)
\* _normalize: icu.Normalizer2 "nfkc_cf" in COMPOSE mode
Normalize(s) == IF s = <<>> THEN <<>> ELSE FoldChar(Head(s)) \o Normalize(Tail(s))

(***************************************************************************)
(* Hex codes: the "hex" codec, sRGBColor and the conversion to Lab.        *)
(***************************************************************************)
HexDigitValue ==
    [c \in {"0", "1", "2", "3", "4", "5", "6", "7", "8", "9",
            "a", "b", "c", "d", "e", "f"} |->
        CASE c = "0" -> 0 [] c = "1" -> 1 [] c = "2" -> 2 [] c = "3" -> 3
          [] c = "4" -> 4 [] c = "5" -> 5 [] c = "6" -> 6 [] c = "7" -> 7
          [] c = "8" -> 8 [] c = "9" -> 9 [] c = "a" -> 10 [] c = "b" -> 11
          [] c = "c" -> 12 [] c = "d" -> 13 [] c = "e" -> 14 [] c = "f" -> 15]

\* binascii.unhexlify accepts both cases of a digit
IsHexDigit(c) == LowerChar(c) \in DOMAIN HexDigitValue

\* hex_code.decode("hex") succeeds: an even number of hex digits
HexDecodes(s) == Len(s) % 2 = 0 /\ \A i \in 1..Len(s) : IsHexDigit(s[i])

\* _hex_to_rgb: the byte values of the decoded string
hex_to_rgb(s) ==
    [i \in 1..(Len(s) \div 2) |->
        16 * HexDigitValue[LowerChar(s[2 * i - 1])] + HexDigitValue[LowerChar(s[2 * i])]]

\* _hex_to_lab returns a LabColor: the codec decodes the string and
\* sRGBColor(*rgb_values, is_upscaled=True) is given exactly three channels
HexToLabOk(s) == HexDecodes(s) /\ Len(s) = 6

\* _hex_to_lab: the value of the LabColor.  colormath's sRGB -> Lab conversion is
\* an injective function of the three channels; it is represented by an
\* integer opponent-colour transform (lightness, red-green, yellow-blue).
hex_to_lab(s) ==
    LET rgb == hex_to_rgb(s)
    IN  [lab_l |-> rgb[1] + rgb[2] + rgb[3],
         lab_a |-> rgb[1] - rgb[2],
         lab_b |-> rgb[2] - rgb[3]]

Abs(x) == IF x < 0 THEN -x ELSE x

\* color_diff.delta_e_cie2000: a non-negative difference of two Lab values that
\* is 0 exactly for equal values; represented by the city-block difference
delta_e_cie2000(p, q) ==
    Abs(p.lab_l - q.lab_l) + Abs(p.lab_a - q.lab_a) + Abs(p.lab_b - q.lab_b)

\* sys.float_info.max, the initial min_distance of the scan
FloatMax == 1000000

(***************************************************************************)
(* The inputs the calls are given.                                         *)
(***************************************************************************)
\* colour names as a caller writes them
RED == <<"R", "e", "d", " ">>
WEISS == <<"w", "e", "i", "ß">>
ColorNames == {RED, WEISS}

\* hex codes as a caller writes them; the last one carries the "#" of a
\* colour definition file and does not decode
WHITE == <<"F", "F", "F", "F", "F", "F", " ">>
BLACK == <<"0", "0", "0", "0", "0", "0">>
HASH_WHITE == <<"#", "f", "f", "f", "f", "f", "f">>
HexCodes == {WHITE, BLACK, HASH_WHITE}

\* the (color_name, hex_code) pairs of a batch
Pairs == ColorNames \X HexCodes

RECURSIVE SeqsUpTo(_, _)
SeqsUpTo(S, n) ==
    IF n = 0 THEN {<<>>}
    ELSE LET shorter == SeqsUpTo(S, n - 1)
         IN  shorter \cup {Append(q, x) : q \in {r \in shorter : Len(r) = n - 1}, x \in S}

\* the sequences of tuples add_colors is given
Batches == SeqsUpTo(Pairs, MaxBatch) \ {<<>>}

\* the systems colours are registered in
Systems == {"en", "de"}

\* the value None, as a system and as a colour name
None == "None"
NoneName == <<"None">>

(***************************************************************************)
(* Dictionaries.                                                           *)
(***************************************************************************)
\* d[k] = v
Put(d, k, v) == [x \in DOMAIN d \cup {k} |-> IF x = k THEN v ELSE d[x]]

EmptyDict == [x \in {} |-> <<>>]

(***************************************************************************)
(* TintRegistry.add_colors                                                 *)
(***************************************************************************)
\* the registry as one value
Registry(h, l, n) == [hex |-> h, lab |-> l, names |-> n]

\* EnsureSystem that gives the system two empty dicts on every call
EnsureSystem_Clear(reg, system) ==
    Registry(Put(reg.hex, system, EmptyDict),
             Put(reg.lab, system, EmptyBag),
             reg.names)

\* lines 148-150: a system seen for the first time gets its two empty dicts
EnsureSystem(reg, system) ==
    IF system \in DOMAIN reg.hex
    THEN reg
    ELSE Registry(Put(reg.hex, system, EmptyDict),
                  Put(reg.lab, system, EmptyBag),
                  reg.names)

\* the LabColor objects are dictionary keys, and colormath's colour classes
\* define neither __eq__ nor __hash__: every object is a key of its own, and
\* the dictionary is the bag of the (LabColor value, name) entries ever stored
PutLab(labs, lab_color, color_name) ==
    labs (+) SetToBag({[lab |-> lab_color, name |-> color_name]})

\* AddPair with the Name Index keyed by the stored name, not its normalization
AddPair_NoNormalize(reg, system, pair) ==
    LET color_name == Strip(Lower(pair[1]))
        hex_code == Strip(Lower(pair[2]))
        lab_color == hex_to_lab(hex_code)
    IN  Registry(Put(reg.hex, system, Put(reg.hex[system], hex_code, color_name)),
                 Put(reg.lab, system, PutLab(reg.lab[system], lab_color, color_name)),
                 Put(reg.names, color_name, hex_code))

\* AddPair that keeps the name a hex code already has in the system
AddPair_KeepFirstName(reg, system, pair) ==
    LET color_name == Strip(Lower(pair[1]))
        hex_code == Strip(Lower(pair[2]))
        lab_color == hex_to_lab(hex_code)
    IN  Registry(Put(reg.hex, system,
                     IF hex_code \in DOMAIN reg.hex[system]
                     THEN reg.hex[system]
                     ELSE Put(reg.hex[system], hex_code, color_name)),
                 Put(reg.lab, system, PutLab(reg.lab[system], lab_color, color_name)),
                 Put(reg.names, Normalize(color_name), hex_code))

\* AddPair that strips the hex code and does not lower-case it
AddPair_NoLower(reg, system, pair) ==
    LET color_name == Strip(Lower(pair[1]))
        hex_code == Strip(pair[2])
        lab_color == hex_to_lab(hex_code)
    IN  Registry(Put(reg.hex, system, Put(reg.hex[system], hex_code, color_name)),
                 Put(reg.lab, system, PutLab(reg.lab[system], lab_color, color_name)),
                 Put(reg.names, Normalize(color_name), hex_code))

\* lines 153-159: one pair of the batch, its hex code known to decode
AddPair(reg, system, pair) ==
    LET color_name == Strip(Lower(pair[1]))
        hex_code == Strip(Lower(pair[2]))
        lab_color == hex_to_lab(hex_code)
    IN  Registry(Put(reg.hex, system, Put(reg.hex[system], hex_code, color_name)),
                 Put(reg.lab, system, PutLab(reg.lab[system], lab_color, color_name)),
                 Put(reg.names, Normalize(color_name), hex_code))

RECURSIVE AddLoop(_, _, _, _)
\* lines 152-159: the pairs in order; _hex_to_lab raises at the first hex code
\* that does not decode and the loop ends there.  done counts the pairs stored.
AddLoop(reg, system, colors, done) ==
    IF colors = <<>>
    THEN [reg |-> reg, raised |-> None, done |-> done]
    ELSE IF ~HexToLabOk(Strip(Lower(Head(colors)[2])))
         THEN [reg |-> reg, raised |-> "TypeError", done |-> done]
         ELSE AddLoop(AddPair(reg, system, Head(colors)), system, Tail(colors), done + 1)

\* add_colors(system, colors) on a registry, colors a sequence of tuples
add_colors(reg, system, colors) ==
    AddLoop(EnsureSystem(reg, system), system, colors, 0)

CurrentRegistry == Registry(colors_by_system_hex, colors_by_system_lab, hex_by_color)

\* A run is one use of a registry, as in the tests: add_colors calls, then a
\* query whose outcome is looked at.  A query leaves the registry as it is, so
\* the runs reach every registry that calls in any order can build, and every
\* outcome a query can have on it.
AddColors(system, colors) ==
    /\ last.op \in {"init", "add_colors"}
    /\ Len(registered) + Len(colors) <= MaxPairs
    /\ LET r == add_colors(CurrentRegistry, system, colors)
       IN  /\ colors_by_system_hex' = r.reg.hex
           /\ colors_by_system_lab' = r.reg.lab
           /\ hex_by_color' = r.reg.names
           /\ last' = [op |-> "add_colors", system |-> system, colors |-> colors,
                       raised |-> r.raised]
           /\ registered' = registered \o
                  [i \in 1..r.done |->
                      [system |-> system, color_name |-> colors[i][1],
                       hex_code |-> colors[i][2]]]

(***************************************************************************)
(* TintRegistry.match_name                                                 *)
(***************************************************************************)
\* fuzzywuzzy's utils.full_process, which both scorers apply to both strings:
\* every character that is no letter or digit becomes a blank, then lower(), strip()
NonWordChars == {" ", "#", "!"}

full_process(s) ==
    Strip(Lower([i \in 1..Len(s) |-> IF s[i] \in NonWordChars THEN " " ELSE s[i]]))

RECURSIVE Tokens(_)
\* str.split(): the set of the blank-separated words of a processed string
Tokens(s) ==
    LET t == LStrip(s)
        n == IF \E i \in 1..Len(t) : IsSpace(t[i])
             THEN (CHOOSE i \in 1..Len(t) :
                      IsSpace(t[i]) /\ \A j \in 1..(i - 1) : ~IsSpace(t[j])) - 1
             ELSE Len(t)
    IN  IF t = <<>> THEN {} ELSE {SubSeq(t, 1, n)} \cup Tokens(SubSeq(t, n + 1, Len(t)))

\* the scores below 100 a scorer is taken to give to two different strings
PartialScores == {30, 85}

\* fuzz.token_set_ratio(query, choice): 0 for a string that processes to nothing,
\* 100 when the words of one string are among the words of the other, and
\* some lower score otherwise
TokenSetScores(query, choice) ==
    LET q == Tokens(full_process(query))
        c == Tokens(full_process(choice))
    IN  IF q = {} \/ c = {} THEN {0}
        ELSE IF q \subseteq c \/ c \subseteq q THEN {100}
        ELSE PartialScores

\* fuzz.WRatio(query, choice), the scorer process.extract uses by default: 0 for
\* a string that processes to nothing, 100 exactly when the processed strings
\* are equal (the partial and token ratios are scaled below 100)
WRatioScores(query, choice) ==
    LET q == full_process(query)
        c == full_process(choice)
    IN  IF q = <<>> \/ c = <<>> THEN {0}
        ELSE IF q = c THEN {100}
        ELSE PartialScores

\* process.extract's limit, which match_name leaves at its default
ExtractLimit == 5

\* process.extract(query, choices, scorer): the lists of at most ExtractLimit
\* best choices, as sets, for the scores the scorer gave (ties cut either way)
Extract(choices, scores) ==
    {top \in SUBSET choices :
        /\ Cardinality(top) = IF Cardinality(choices) < ExtractLimit
                              THEN Cardinality(choices) ELSE ExtractLimit
        /\ \A t \in top, u \in choices \ top : scores[t] >= scores[u]}

\* MergeCounters as a plain dict update: the standard scorer's score replaces
\* the set scorer's instead of being added to it
MergeCounters_Overwrite(top_set, set_scores, top_std, std_scores) ==
    [n \in top_set \cup top_std |->
        IF n \in top_std THEN std_scores[n] ELSE set_scores[n]]

\* lines 191-192: the Counter of the set scorer's list, updated with the
\* Counter of the standard scorer's list (a name missing from a list adds 0)
MergeCounters(top_set, set_scores, top_std, std_scores) ==
    [n \in top_set \cup top_std |->
        (IF n \in top_set THEN set_scores[n] ELSE 0)
      + (IF n \in top_std THEN std_scores[n] ELSE 0)]

\* counter.most_common(1)[0]: the entries with the largest count
MostCommon(counter) ==
    {n \in DOMAIN counter : \A m \in DOMAIN counter : counter[n] >= counter[m]}

MatchResult(hex_code, score) ==
    [kind |-> "MatchResult", hex_code |-> hex_code, score |-> score]

\* a call that raised returns nothing
NoResult == [kind |-> "None"]

\* the scores the set scorer can give the choices: one score for every choice
SetScoreLists(query, choices) ==
    {f \in [choices -> PartialScores \cup {0, 100}] :
        \A k \in choices : f[k] \in TokenSetScores(query, k)}

\* the scores the standard scorer can give the choices
StdScoreLists(query, choices) ==
    {f \in [choices -> PartialScores \cup {0, 100}] :
        \A k \in choices : f[k] \in WRatioScores(query, k)}

\* lines 185-194: the fuzzy path on a registry with names, for a normalized
\* input that is no key.  The scorers' lists, the cut of process.extract and
\* the pick among equal counts are taken every way they can come out; each
\* outcome carries the two lists process.extract returned (name to score).
\* score / 2 divides two ints, so an odd count is halved rounding down.
FuzzyMatch(names, query) ==
    LET keys == DOMAIN names
        \* process.extract(query, keys, scorer=fuzz.token_set_ratio)
        result_set_scorer ==
            UNION {{[n \in top |-> scores[n]] : top \in Extract(keys, scores)} :
                      scores \in SetScoreLists(query, keys)}
        \* process.extract(query, keys)
        result_std_scorer ==
            UNION {{[n \in top |-> scores[n]] : top \in Extract(keys, scores)} :
                      scores \in StdScoreLists(query, keys)}
        Counter(set_list, std_list) ==
            MergeCounters(DOMAIN set_list, set_list, DOMAIN std_list, std_list)
        \* the two lists with a name most_common(1) can put first
        Picks == {t \in result_set_scorer \X result_std_scorer \X keys :
                     /\ t[3] \in DOMAIN t[1] \cup DOMAIN t[2]
                     /\ t[3] \in MostCommon(Counter(t[1], t[2]))}
    IN  {[raised |-> None, path |-> "fuzzy",
          set_list |-> t[1], std_list |-> t[2],
          ret |-> MatchResult(names[t[3]], Counter(t[1], t[2])[t[3]] \div 2)] :
            t \in Picks}

\* match_name(in_string) on a registry with names: the ways the call can end
match_name(names, in_string) ==
    LET query == Normalize(in_string)
    IN  IF query \in DOMAIN names
        THEN {[raised |-> None, path |-> "exact", set_list |-> EmptyDict,
               std_list |-> EmptyDict, ret |-> MatchResult(names[query], 100)]}
        ELSE IF DOMAIN names = {}
             \* process.extract returns [] and most_common(1) is [], so [0] fails
             THEN {[raised |-> "IndexError", path |-> "fuzzy", set_list |-> EmptyDict,
                    std_list |-> EmptyDict, ret |-> NoResult]}
             ELSE FuzzyMatch(names, query)

\* the strings match_name is asked about
MatchInputs ==
    {RED, WEISS, <<"r", "e", "d">>, <<"w", "e", "i", "s", "s">>, <<"W", "E", "I", "ß">>,
     <<"r", "e", "d", "!">>, <<"t", "e", "a", "l">>}

MatchName(in_string) ==
    /\ last.op \in {"init", "add_colors"}
    /\ \E r \in match_name(hex_by_color, in_string) :
          last' = [op |-> "match_name", in_string |-> in_string, path |-> r.path,
                   set_list |-> r.set_list, std_list |-> r.std_list,
                   raised |-> r.raised, ret |-> r.ret]
    /\ UNCHANGED <<colors_by_system_hex, colors_by_system_lab, hex_by_color, registered>>

(***************************************************************************)
(* TintRegistry.find_nearest                                               *)
(***************************************************************************)
FindResult(color_name, distance) ==
    [kind |-> "FindResult", color_name |-> color_name, distance |-> distance]

\* the three kinds of filter_set: None, a collection of names, a mapping
NoFilter == [kind |-> "None"]
NameFilter(names) == [kind |-> "names", names |-> names]
MappingFilter(map) == [kind |-> "mapping", map |-> map]

\* line 226: isinstance(filter_set, collections.Mapping)
IsMapping(filter_set) == filter_set.kind = "mapping"

\* PassesFilter that lets every name pass
PassesFilter_Always(filter_set, color_name) == TRUE

\* lines 240 and 253: the name passes the filter
PassesFilter(filter_set, color_name) ==
    filter_set.kind = "None" \/ color_name \in filter_set.names

\* lines 255-264: the scan of the candidates (a set of (lab, name) entries) in
\* the dictionary's order, which no rule fixes: the first entry at the least
\* distance wins, and any entry at the least distance can be that first one
Scan(lab_color, colors) ==
    IF colors = {}
    THEN {FindResult(NoneName, FloatMax)}
    ELSE {FindResult(e.name, delta_e_cie2000(lab_color, e.lab)) :
            e \in {c \in colors :
                    \A d \in colors :
                        delta_e_cie2000(lab_color, c.lab) <= delta_e_cie2000(lab_color, d.lab)}}

\* lines 244-253: the candidates of the search
Candidates(reg, system, filter_set) ==
    IF IsMapping(filter_set)
    THEN {[lab |-> hex_to_lab(h), name |-> filter_set.map[h]] : h \in DOMAIN filter_set.map}
    ELSE {e \in BagToSet(reg.lab[system]) : PassesFilter(filter_set, e.name)}

\* lines 243-264: no direct hit
NearestSearch(reg, hex_code, system, filter_set) ==
    IF ~HexToLabOk(hex_code)
       \/ (IsMapping(filter_set) /\ \E h \in DOMAIN filter_set.map : ~HexToLabOk(h))
    THEN {[raised |-> "TypeError", path |-> "search", ret |-> NoResult]}
    ELSE {[raised |-> None, path |-> "search", ret |-> r] :
            r \in Scan(hex_to_lab(hex_code), Candidates(reg, system, filter_set))}

\* find_nearest(hex_code, system, filter_set) on a registry: the ways the call ends
find_nearest(reg, hex_code_in, system, filter_set) ==
    LET hex_code == Strip(Lower(hex_code_in))
    IN  IF system = None /\ ~IsMapping(filter_set)
        THEN {[raised |-> "TypeError", path |-> "arguments", ret |-> NoResult]}
        ELSE IF IsMapping(filter_set)
        THEN IF hex_code \in DOMAIN filter_set.map
             \* line 236 returns the mapped name itself
             THEN {[raised |-> None, path |-> "direct",
                    ret |-> [kind |-> "str", value |-> filter_set.map[hex_code]]]}
             ELSE NearestSearch(reg, hex_code, system, filter_set)
        ELSE IF system \notin DOMAIN reg.hex
        \* line 238 indexes the dict of systems
        THEN {[raised |-> "KeyError", path |-> "direct", ret |-> NoResult]}
        ELSE IF /\ hex_code \in DOMAIN reg.hex[system]
                /\ PassesFilter(filter_set, reg.hex[system][hex_code])
        THEN {[raised |-> None, path |-> "direct",
               ret |-> FindResult(reg.hex[system][hex_code], 0)]}
        ELSE NearestSearch(reg, hex_code, system, filter_set)

\* the hex codes find_nearest is asked about: a registered one, one next to it
\* and one that does not decode
NEAR_WHITE == <<"f", "f", "f", "f", "f", "e">>
QueryHexCodes == {WHITE, NEAR_WHITE, HASH_WHITE}

\* the names as add_colors stores them
StoredNames == {Strip(Lower(n)) : n \in ColorNames}

\* the systems find_nearest is asked about: the registered ones, a system no
\* add_colors call names, and the default None
QuerySystems == Systems \cup {"ral", None}

\* the mappings given as filter_set
W6 == Strip(Lower(WHITE))
B6 == Strip(Lower(BLACK))
FilterMappings ==
    {EmptyDict,
     [h \in {W6} |-> Strip(Lower(RED))],
     [h \in {B6} |-> Strip(Lower(WEISS))],
     [h \in {W6, B6} |-> IF h = W6 THEN Strip(Lower(RED)) ELSE Strip(Lower(WEISS))]}

FilterSets ==
    {NoFilter} \cup {NameFilter(F) : F \in SUBSET StoredNames}
               \cup {MappingFilter(m) : m \in FilterMappings}

FindNearest(hex_code, system, filter_set) ==
    /\ last.op \in {"init", "add_colors"}
    /\ \E r \in find_nearest(CurrentRegistry, hex_code, system, filter_set) :
          last' = [op |-> "find_nearest", hex_code |-> hex_code, system |-> system,
                   filter_set |-> filter_set, path |-> r.path,
                   raised |-> r.raised, ret |-> r.ret]
    /\ UNCHANGED <<colors_by_system_hex, colors_by_system_lab, hex_by_color, registered>>

\* __init__(load_defaults=False): three empty dicts
Init ==
    /\ colors_by_system_hex = EmptyDict
    /\ colors_by_system_lab = EmptyDict
    /\ hex_by_color = EmptyDict
    /\ last = [op |-> "init"]
    /\ registered = <<>>

Next ==
    \/ \E system \in Systems, colors \in Batches : AddColors(system, colors)
    \/ \E in_string \in MatchInputs : MatchName(in_string)
    \/ \E hex_code \in QueryHexCodes, system \in QuerySystems, filter_set \in FilterSets :
          FindNearest(hex_code, system, filter_set)

Spec == Init /\ [][Next]_vars

(***************************************************************************)
(* match_name on a registry with more names than process.extract returns.  *)
(***************************************************************************)
\* the names of the registry, none of them the words of another
FuzzyColorNames ==
    <<<<"r", "e", "d">>, <<"s", "k", "y">>, <<"t", "a", "n">>,
      <<"j", "a", "d", "e">>, <<"p", "l", "u", "m">>, <<"l", "i", "m", "e">>>>

FuzzyDigits == <<"0", "3", "6", "9", "c", "f">>

\* the hex code of six equal digits
HexOf(d) == <<d, d, d, d, d, d>>

\* the batches the registry is filled from: every name with a hex code of its own
FuzzyBatches ==
    {[i \in DOMAIN FuzzyColorNames |-> <<FuzzyColorNames[i], HexOf(FuzzyDigits[i])>>],
     [i \in DOMAIN FuzzyColorNames |->
         <<FuzzyColorNames[i], HexOf(FuzzyDigits[Len(FuzzyDigits) + 1 - i])>>]}

\* the strings match_name is asked about: the words of two names, and a string
\* near no name
FuzzyInputs ==
    {<<"s", "k", "y", " ", "r", "e", "d">>, <<"x", "y", "z">>}

\* __init__(load_defaults=False) followed by add_colors("en", colors)
InitFuzzy ==
    \E colors \in FuzzyBatches :
        LET r == add_colors(Registry(EmptyDict, EmptyDict, EmptyDict), "en", colors)
        IN  /\ colors_by_system_hex = r.reg.hex
            /\ colors_by_system_lab = r.reg.lab
            /\ hex_by_color = r.reg.names
            /\ last = [op |-> "add_colors", system |-> "en", colors |-> colors,
                       raised |-> r.raised]
            /\ registered = [i \in 1..r.done |->
                                [system |-> "en", color_name |-> colors[i][1],
                                 hex_code |-> colors[i][2]]]

NextFuzzy == \E in_string \in FuzzyInputs : MatchName(in_string)

SpecFuzzy == InitFuzzy /\ [][NextFuzzy]_vars

(***************************************************************************)
(* The registrations so far, as add_colors stored them.                    *)
(***************************************************************************)
StoredName(e) == Strip(Lower(e.color_name))
StoredHex(e) == Strip(Lower(e.hex_code))
NameKey(e) == Normalize(StoredName(e))

\* registration i is the last one of its normalized name
LastOfName(i) ==
    \A j \in (i + 1)..Len(registered) : NameKey(registered[j]) # NameKey(registered[i])

\* registration i is the last one of its hex code in its system
LastOfHex(i) ==
    \A j \in (i + 1)..Len(registered) :
        ~(/\ registered[j].system = registered[i].system
          /\ StoredHex(registered[j]) = StoredHex(registered[i]))

\* a 6-hex-digit lower-case string without "#"
Canonical(h) == Len(h) = 6 /\ \A i \in 1..Len(h) : h[i] \in DOMAIN HexDigitValue

(***************************************************************************)
(* C1: exact-name round trip.                                              *)
(***************************************************************************)
\* C1 as stated: match_name called with the name of any registered pair,
\* exactly as it was passed to add_colors, returns that pair's hex code and 100.
C1_RoundTripEveryPair ==
    last.op = "match_name" =>
        \A i \in 1..Len(registered) :
            registered[i].color_name = last.in_string =>
                /\ last.raised = None
                /\ last.ret = MatchResult(StoredHex(registered[i]), 100)

\* C1 amended: match_name called with a string that normalizes to the key of a
\* registered pair (the name as stored, in any case) returns 100 and the hex
\* code of the last pair registered under that normalized name.
C1_RoundTripLastPair ==
    last.op = "match_name" =>
        \A i \in 1..Len(registered) :
            (Normalize(last.in_string) = NameKey(registered[i]) /\ LastOfName(i)) =>
                /\ last.raised = None
                /\ last.ret = MatchResult(StoredHex(registered[i]), 100)

\* a name registered twice with two hex codes, then matched through its key
C1_Witness ==
    /\ last.op = "match_name"
    /\ last.raised = None
    /\ \E i, j \in 1..Len(registered) :
          /\ i < j
          /\ NameKey(registered[i]) = NameKey(registered[j])
          /\ StoredHex(registered[i]) # StoredHex(registered[j])
          /\ Normalize(last.in_string) = NameKey(registered[j])
          /\ last.in_string # StoredName(registered[j])
          /\ last.ret = MatchResult(StoredHex(registered[j]), 100)

(***************************************************************************)
(* C2: exact-hex round trip.                                               *)
(***************************************************************************)
\* C2 as stated: find_nearest(hex, S) without a filter returns (name, 0) for
\* every pair (name, hex) registered in S, and the hex code match_name gives
\* for the name leads find_nearest back to the name.
C2_RoundTripEveryPair ==
    (last.op = "find_nearest" /\ last.filter_set = NoFilter) =>
        \A i \in 1..Len(registered) :
            (/\ registered[i].system = last.system
             /\ StoredHex(registered[i]) = Strip(Lower(last.hex_code))) =>
                /\ last.raised = None
                /\ last.ret = FindResult(StoredName(registered[i]), 0)
                /\ \A m \in match_name(hex_by_color, StoredName(registered[i])) :
                      \A f \in find_nearest(CurrentRegistry, m.ret.hex_code,
                                            last.system, NoFilter) :
                          f.ret = FindResult(StoredName(registered[i]), 0)

\* C2 amended: find_nearest(hex, S) without a filter returns (name, 0) where
\* name is the stored name of the last pair registered in S with that hex code;
\* and when that pair is also the last one of its normalized name, the hex code
\* match_name gives for the name leads find_nearest back to the name.
C2_RoundTripLastPair ==
    (last.op = "find_nearest" /\ last.filter_set = NoFilter) =>
        \A i \in 1..Len(registered) :
            (/\ registered[i].system = last.system
             /\ StoredHex(registered[i]) = Strip(Lower(last.hex_code))
             /\ LastOfHex(i)) =>
                /\ last.raised = None
                /\ last.ret = FindResult(StoredName(registered[i]), 0)
                /\ LastOfName(i) =>
                      \A m \in match_name(hex_by_color, StoredName(registered[i])) :
                          \A f \in find_nearest(CurrentRegistry, m.ret.hex_code,
                                                last.system, NoFilter) :
                              f.ret = FindResult(StoredName(registered[i]), 0)

\* a hex code registered in one system under two names, then looked up there
C2_Witness ==
    /\ last.op = "find_nearest"
    /\ last.filter_set = NoFilter
    /\ \E i, j \in 1..Len(registered) :
          /\ i < j
          /\ registered[i].system = last.system
          /\ registered[j].system = last.system
          /\ StoredHex(registered[i]) = Strip(Lower(last.hex_code))
          /\ StoredHex(registered[j]) = Strip(Lower(last.hex_code))
          /\ StoredName(registered[i]) # StoredName(registered[j])
          /\ last.hex_code # StoredHex(registered[j])
          /\ last.ret = FindResult(StoredName(registered[j]), 0)

(***************************************************************************)
(* C3: find_nearest on a system that was never registered.                 *)
(***************************************************************************)
\* C3: find_nearest with a system no add_colors call named, and no mapping as
\* filter_set, ends with the unknown-system error the test expects (ValueError),
\* not with a lookup failure and not with a result.
C3_UnknownSystemError ==
    (/\ last.op = "find_nearest"
     /\ last.system # None
     /\ last.system \notin DOMAIN colors_by_system_hex
     /\ ~IsMapping(last.filter_set)) =>
        /\ last.raised = "ValueError"
        /\ last.ret = NoResult

(***************************************************************************)
(* C4: the direct hit in a mapping given as filter_set.                    *)
(***************************************************************************)
\* C4: when filter_set is a mapping that has the lower-cased, trimmed hex code
\* as a key, find_nearest returns FindResult(mapped name, 0).
C4_MappingDirectHit ==
    (/\ last.op = "find_nearest"
     /\ IsMapping(last.filter_set)
     /\ Strip(Lower(last.hex_code)) \in DOMAIN last.filter_set.map) =>
        /\ last.raised = None
        /\ last.ret = FindResult(last.filter_set.map[Strip(Lower(last.hex_code))], 0)

(***************************************************************************)
(* C5: filter containment.                                                 *)
(***************************************************************************)
\* C5 as stated: with a collection F of names as filter_set, the color_name
\* find_nearest returns is a member of F.
C5_FilterContainment ==
    (/\ last.op = "find_nearest"
     /\ last.filter_set.kind = "names"
     /\ last.raised = None) =>
        last.ret.color_name \in last.filter_set.names

\* C5 amended: the color_name returned is a member of F, or it is None, with
\* the distance sys.float_info.max, when no candidate of the system carries a
\* name of F.
C5_FilterContainmentOrNone ==
    (/\ last.op = "find_nearest"
     /\ last.filter_set.kind = "names"
     /\ last.raised = None) =>
        \/ last.ret.color_name \in last.filter_set.names
        \/ /\ last.ret = FindResult(NoneName, FloatMax)
           /\ \A e \in BagToSet(colors_by_system_lab[last.system]) :
                  e.name \notin last.filter_set.names

\* the hex code asked about is registered in the system under a name outside
\* F, and the search returns another candidate, whose name is in F
C5_Witness ==
    /\ last.op = "find_nearest"
    /\ last.filter_set.kind = "names"
    /\ last.raised = None
    /\ last.path = "search"
    /\ Strip(Lower(last.hex_code)) \in DOMAIN colors_by_system_hex[last.system]
    /\ colors_by_system_hex[last.system][Strip(Lower(last.hex_code))]
           \notin last.filter_set.names
    /\ last.ret.color_name \in last.filter_set.names
    /\ last.ret.distance > 0

(***************************************************************************)
(* C6: match_name on a registry without names.                             *)
(***************************************************************************)
\* C6: match_name on a registry in which no colour name is registered ends with
\* an error of its own, not with an indexing or lookup failure and not with a
\* result.
C6_EmptyRegistryError ==
    (last.op = "match_name" /\ DOMAIN hex_by_color = {}) =>
        /\ last.raised \notin {None, "IndexError", "KeyError"}
        /\ last.ret = NoResult

(***************************************************************************)
(* C7: the score of match_name.                                            *)
(***************************************************************************)
\* C7: on a registry with names, match_name returns a score in 0..100, and the
\* score is 100 if and only if the normalized input is a key of the Name Index.
C7_PerfectScoreOnlyExact ==
    (last.op = "match_name" /\ DOMAIN hex_by_color # {}) =>
        /\ last.raised = None
        /\ last.ret.score \in 0..100
        /\ last.ret.score = 100 <=> Normalize(last.in_string) \in DOMAIN hex_by_color

(***************************************************************************)
(* C8: add_colors given a hex code that does not decode.                   *)
(***************************************************************************)
\* C8: an add_colors call is atomic: it either applies its whole batch, or it
\* ends with an error and leaves the registry, the set of systems included, as
\* it was before the call.
C8_AtomicPerCall ==
    [][last'.op = "add_colors" =>
          \/ last'.raised = None
          \/ /\ colors_by_system_hex' = colors_by_system_hex
             /\ colors_by_system_lab' = colors_by_system_lab
             /\ hex_by_color' = hex_by_color]_vars

(***************************************************************************)
(* C9: the hex codes the registry holds.                                   *)
(***************************************************************************)
\* the hex code with surrounding blanks, upper case and a leading "#" removed
StripHash(h) ==
    LET t == Strip(Lower(h))
    IN  IF t # <<>> /\ Head(t) = "#" THEN Tail(t) ELSE t

\* every key of every system's hex -> name map and every value of the Name
\* Index is a 6-hex-digit lower-case string without "#"
AllHexCanonical ==
    /\ \A system \in DOMAIN colors_by_system_hex :
          \A h \in DOMAIN colors_by_system_hex[system] : Canonical(h)
    /\ \A n \in DOMAIN hex_by_color : Canonical(hex_by_color[n])

C10_PartitionsConsistent ==
    \A system \in DOMAIN colors_by_system_hex :
        /\ \A h \in DOMAIN colors_by_system_hex[system] :
              \E e \in BagToSet(colors_by_system_lab[system]) : e.lab = hex_to_lab(h)
        /\ \A e \in BagToSet(colors_by_system_lab[system]) :
              \E h \in DOMAIN colors_by_system_hex[system] :
                  /\ e.lab = hex_to_lab(h)
                  /\ e.name = colors_by_system_hex[system][h]

(***************************************************************************)
(* C11: what a successful add_colors call leaves as it was.                *)
(***************************************************************************)
\* the hex codes of a batch, as add_colors stores them
BatchHexCodes(colors) == {Strip(Lower(colors[i][2])) : i \in 1..Len(colors)}

\* the normalized names of a batch
BatchKeys(colors) == {Normalize(Strip(Lower(colors[i][1]))) : i \in 1..Len(colors)}

\* the hex code of the last pair of the batch with the normalized name k
LastHexOfKey(colors, k) ==
    LET i == CHOOSE i \in 1..Len(colors) :
                 /\ Normalize(Strip(Lower(colors[i][1]))) = k
                 /\ \A j \in (i + 1)..Len(colors) :
                        Normalize(Strip(Lower(colors[j][1]))) # k
    IN  Strip(Lower(colors[i][2]))

\* C11: a successful add_colors(S, batch) leaves unchanged every hex -> name
\* entry of S whose hex code is not in the batch (and drops no candidate of
\* S), both partitions of every other system, and every Name Index entry whose
\* normalized name is not in the batch; a normalized name of the batch maps
\* afterwards to the hex code of the last pair of the batch with that name.
C11_MergesNeverClears ==
    [][(last'.op = "add_colors" /\ last'.raised = None) =>
          LET S == last'.system
              batch == last'.colors
          IN  /\ S \in DOMAIN colors_by_system_hex =>
                    /\ \A h \in DOMAIN colors_by_system_hex[S] \ BatchHexCodes(batch) :
                          /\ h \in DOMAIN colors_by_system_hex'[S]
                          /\ colors_by_system_hex'[S][h] = colors_by_system_hex[S][h]
                    /\ colors_by_system_lab[S] \sqsubseteq colors_by_system_lab'[S]
              /\ \A T \in DOMAIN colors_by_system_hex \ {S} :
                    /\ T \in DOMAIN colors_by_system_hex'
                    /\ colors_by_system_hex'[T] = colors_by_system_hex[T]
                    /\ colors_by_system_lab'[T] = colors_by_system_lab[T]
              /\ DOMAIN colors_by_system_hex' = DOMAIN colors_by_system_hex \cup {S}
              /\ \A k \in DOMAIN hex_by_color \ BatchKeys(batch) :
                    /\ k \in DOMAIN hex_by_color'
                    /\ hex_by_color'[k] = hex_by_color[k]
              /\ DOMAIN hex_by_color' = DOMAIN hex_by_color \cup BatchKeys(batch)
              /\ \A k \in BatchKeys(batch) :
                    hex_by_color'[k] = LastHexOfKey(batch, k)]_vars

\* a system that already held a colour was given a second one, with another
\* name and another hex code, and holds both
C11_Witness ==
    /\ last.op = "add_colors"
    /\ last.raised = None
    /\ Len(registered) > Len(last.colors)
    /\ registered[1].system = last.system
    /\ StoredHex(registered[1]) \notin BatchHexCodes(last.colors)
    /\ NameKey(registered[1]) \notin BatchKeys(last.colors)
    /\ StoredHex(registered[1]) \in DOMAIN colors_by_system_hex[last.system]
    /\ colors_by_system_hex[last.system][StoredHex(registered[1])]
           = StoredName(registered[1])
    /\ hex_by_color[NameKey(registered[1])] = StoredHex(registered[1])
    /\ Cardinality(DOMAIN colors_by_system_hex[last.system]) > 1

(***************************************************************************)
(* C12: the fuzzy merge rule of match_name.                                *)
(***************************************************************************)
\* the score a list holds for a name, 0 for a name the list does not hold
ListScore(list, n) == IF n \in DOMAIN list THEN list[n] ELSE 0

SummedScore(n) == ListScore(last.set_list, n) + ListScore(last.std_list, n)

ListedNames == DOMAIN last.set_list \cup DOMAIN last.std_list

TopN == IF Cardinality(DOMAIN hex_by_color) < ExtractLimit
        THEN Cardinality(DOMAIN hex_by_color) ELSE ExtractLimit

==========================================================================
